---- MODULE Spec2Model ----
(***************************************************************************)
(* A model of free_args.py: the FreeArgs command-line argument parser.     *)
(*                                                                         *)
(* Text is a sequence of one-character strings.  A Python value is a       *)
(* record [t |-> <type name>, v |-> <payload>], t being what               *)
(* type(x).__name__ yields.  A dict is a function from keys to values.     *)
(* The outcome of a call is [kind |-> "return", val |-> <value>] or        *)
(* [kind |-> "raise", val |-> <exception name>].                           *)
(***************************************************************************)
EXTENDS Integers, Sequences, FiniteSets, TLC

VARIABLES
    ctl_dict,     \* self.ctl_dict: label -> raw value
    doc_list,     \* self.doc_list: the non-option arguments
    config_dict,  \* the optional instance attribute config_dict
    call,         \* the last (or the pending) call: [op, params, dirty], dirty
                  \* telling whether the instance held anything when it began
    ret           \* its outcome

vars == <<ctl_dict, doc_list, config_dict, call, ret>>

----------------------------------------------------------------------------
(* Bounds of the model.                                                    *)

\* Longest argument list given to parse_args under Spec.
MaxArgs == 2
\* Longest token of the exhaustive token enumeration under SpecTok.
MaxTokLen == 4
\* Longest text value of the exhaustive value enumeration under SpecOpt.
MaxTextLen == 4

----------------------------------------------------------------------------
(* Python values.                                                          *)

None == [t |-> "NoneType", v |-> <<>>]
PyInt(n) == [t |-> "int", v |-> n]
PyStr(s) == [t |-> "str", v |-> s]
PyBool(b) == [t |-> "bool", v |-> b]
PyList(s) == [t |-> "list", v |-> s]
PyTuple(s) == [t |-> "tuple", v |-> s]
\* A float is (-1)^neg * mant * 10^exp, mant without trailing zeros
\* (mant = 0 has exp = 0), so that equal floats are equal records.
PyFloat(neg, mant, exp) == [t |-> "float", v |-> [neg |-> neg, mant |-> mant, exp |-> exp]]

EmptyDict == [k \in {} |-> None]
PyDict(d) == [t |-> "dict", v |-> d]

\* An assignment that keeps the value a key already has.
dict_setdefault(d, k, v) == [x \in (DOMAIN d) \cup {k} |-> IF x \in DOMAIN d THEN d[x] ELSE v]

\* d[k] = v
dict_setitem(d, k, v) == [x \in (DOMAIN d) \cup {k} |-> IF x = k THEN v ELSE d[x]]

Return(v) == [kind |-> "return", val |-> v]
Raise(e) == [kind |-> "raise", val |-> e]
Pending == [kind |-> "pending", val |-> ""]

----------------------------------------------------------------------------
(* Text helpers.                                                           *)

Digits == <<"0", "1", "2", "3", "4", "5", "6", "7", "8", "9">>
IsDigit(c) == \E d \in 1..10 : Digits[d] = c
DigitVal(c) == (CHOOSE d \in 1..10 : Digits[d] = c) - 1

\* All texts over the characters cs of length at most n.
Texts(cs, n) == UNION {[1..k -> cs] : k \in 0..n}

\* The regular expression atom '.': any character but a newline.
Dot(c) == c # "\n"

\* A greedy '.*' starting at position i of s: the index of the last character
\* it takes (i - 1 when it takes none).
RECURSIVE DotStarEnd(_, _)
DotStarEnd(s, i) ==
    IF i <= Len(s) /\ Dot(s[i]) THEN DotStarEnd(s, i + 1) ELSE i - 1

\* A greedy '\d+' or '\d*' starting at position i of s, likewise.
RECURSIVE DigitsEnd(_, _)
DigitsEnd(s, i) ==
    IF i <= Len(s) /\ IsDigit(s[i]) THEN DigitsEnd(s, i + 1) ELSE i - 1

\* The position of the first c in s at or after i, or 0.
RECURSIVE Find(_, _, _)
Find(s, c, i) ==
    IF i > Len(s) THEN 0 ELSE IF s[i] = c THEN i ELSE Find(s, c, i + 1)

\* The number of '-' that s starts with.
RECURSIVE LeadingDashes(_, _)
LeadingDashes(s, i) ==
    IF i <= Len(s) /\ s[i] = "-" THEN LeadingDashes(s, i + 1) ELSE i - 1

\* Does s hold p at position i?
HasAt(s, p, i) ==
    /\ i + Len(p) - 1 <= Len(s)
    /\ \A j \in 1..Len(p) : s[i + j - 1] = p[j]

\* int() of a text of decimal digits.
RECURSIVE DigitsToNat(_, _)
DigitsToNat(s, acc) ==
    IF s = <<>> THEN acc ELSE DigitsToNat(Tail(s), 10 * acc + DigitVal(Head(s)))

\* The decimal digits of a natural number.
RECURSIVE NatToDigits(_)
NatToDigits(n) ==
    IF n < 10 THEN <<Digits[n + 1]>> ELSE NatToDigits(n \div 10) \o <<Digits[(n % 10) + 1]>>

RECURSIVE Zeros(_)
Zeros(n) == IF n <= 0 THEN <<>> ELSE <<"0">> \o Zeros(n - 1)

RECURSIVE Pow10(_)
Pow10(n) == IF n <= 0 THEN 1 ELSE 10 * Pow10(n - 1)

----------------------------------------------------------------------------
(* FreeArgs._transform_label                                               *)

\* raw_label.split('-'): the pieces between the hyphens.
RECURSIVE split_hyphen(_, _)
split_hyphen(s, piece) ==
    IF s = <<>> THEN <<piece>>
    ELSE IF Head(s) = "-" THEN <<piece>> \o split_hyphen(Tail(s), <<>>)
    ELSE split_hyphen(Tail(s), Append(piece, Head(s)))

\* '_'.join(pieces)
RECURSIVE join_underscore(_)
join_underscore(pieces) ==
    IF Len(pieces) = 1 THEN pieces[1]
    ELSE pieces[1] \o <<"_">> \o join_underscore(Tail(pieces))

transform_label(raw_label) == join_underscore(split_hyphen(raw_label, <<>>))

----------------------------------------------------------------------------
(* json.loads, on payloads over the characters 0-9 - [ ] { } and letters   *)
(* that spell no JSON literal: the JSON texts among these are the integers *)
(* (an optional '-', then 0 or a digit string without a leading 0), [],   *)
(* {} and [<value>].                                                       *)

IsJsonInt(s) ==
    LET b == IF s # <<>> /\ s[1] = "-" THEN 2 ELSE 1
    IN  /\ b <= Len(s)
        /\ \A i \in b..Len(s) : IsDigit(s[i])
        /\ (s[b] = "0" => Len(s) = b)

JsonIntVal(s) ==
    IF s[1] = "-" THEN 0 - DigitsToNat(Tail(s), 0) ELSE DigitsToNat(s, 0)

RECURSIVE json_loads(_)
json_loads(s) ==
    IF IsJsonInt(s) THEN Return(PyInt(JsonIntVal(s)))
    ELSE IF s = <<"[", "]">> THEN Return(PyList(<<>>))
    ELSE IF s = <<"{", "}">> THEN Return(PyDict(EmptyDict))
    ELSE IF Len(s) >= 3 /\ s[1] = "[" /\ s[Len(s)] = "]"
    THEN LET inner == json_loads(SubSeq(s, 2, Len(s) - 1))
         IN  IF inner.kind = "return" THEN Return(PyList(<<inner.val>>))
             ELSE Raise("ValueError")
    ELSE Raise("ValueError")

----------------------------------------------------------------------------
(* The four regular expressions of parse_args, each tried with re.match    *)
(* (anchored at the start of the token, not at its end).                   *)

NoHit == [hit |-> FALSE, g1 |-> <<>>, g2 |-> <<>>]
Hit(a, b) == [hit |-> TRUE, g1 |-> a, g2 |-> b]

\* re.match('-([^-].*)', arg)
match_short(arg) ==
    IF Len(arg) >= 2 /\ arg[1] = "-" /\ arg[2] # "-"
    THEN Hit(SubSeq(arg, 2, DotStarEnd(arg, 3)), <<>>)
    ELSE NoHit

\* re.match('--+([^=]+)=json:(.+)', arg).  [^=]+ cannot cross an '=', so the
\* '=' of the pattern is the first one of the token; '--+' takes all the
\* leading dashes, or all but one when the label would otherwise be empty.
match_json(arg) ==
    LET p == Find(arg, "=", 1)
        n == LeadingDashes(arg, 1)
        d == IF n = p - 1 THEN n - 1 ELSE n
    IN  IF /\ n >= 2
           /\ p # 0
           /\ d >= 2
           /\ HasAt(arg, <<"=", "j", "s", "o", "n", ":">>, p)
           /\ p + 6 <= Len(arg)
           /\ Dot(arg[p + 6])
        THEN Hit(SubSeq(arg, d + 1, p - 1), SubSeq(arg, p + 6, DotStarEnd(arg, p + 6)))
        ELSE NoHit

\* re.match('--([^=]+)=(.*)', arg)
match_value(arg) ==
    LET p == Find(arg, "=", 1)
    IN  IF HasAt(arg, <<"-", "-">>, 1) /\ p >= 4
        THEN Hit(SubSeq(arg, 3, p - 1), SubSeq(arg, p + 1, DotStarEnd(arg, p + 1)))
        ELSE NoHit

\* A stricter fourth pattern, '--([^=]+)$': a label, and no '=' in the token.
match_flag_no_equals(arg) ==
    IF HasAt(arg, <<"-", "-">>, 1) /\ Len(arg) >= 3 /\ Find(arg, "=", 1) = 0
    THEN Hit(SubSeq(arg, 3, DotStarEnd(arg, 3)), <<>>)
    ELSE NoHit

\* re.match('--(.*)', arg)
match_flag(arg) ==
    IF HasAt(arg, <<"-", "-">>, 1)
    THEN Hit(SubSeq(arg, 3, DotStarEnd(arg, 3)), <<>>)
    ELSE NoHit

----------------------------------------------------------------------------
(* FreeArgs.parse_args                                                     *)

FLAG == -1

\* for c in hits.group(1): self.ctl_dict[c] = -1
RECURSIVE set_flags(_, _)
set_flags(ctl, cs) ==
    IF cs = <<>> THEN ctl
    ELSE set_flags(dict_setitem(ctl, <<Head(cs)>>, PyInt(FLAG)), Tail(cs))

\* The containers __init__ gives a new instance.
init_ctl_dict == EmptyDict
init_doc_list == <<>>

\* A parse that forgets to rebuild the containers.
keep_containers(ctl, doc) == [ctl |-> ctl, doc |-> doc]

\* self.ctl_dict = dict(); self.doc_list = list()
reset_containers(ctl, doc) == [ctl |-> EmptyDict, doc |-> <<>>]

\* The body of the loop for one token: the containers after it, and whether
\* it raised.
parse_token(ctl, doc, arg) ==
    LET s == match_short(arg)
        j == match_json(arg)
        w == match_value(arg)
        f == match_flag(arg)
    IN  IF s.hit THEN [ctl |-> set_flags(ctl, s.g1), doc |-> doc, exc |-> ""]
        ELSE IF j.hit THEN
            LET decoded == json_loads(j.g2)
            IN  IF decoded.kind = "raise"
                THEN [ctl |-> ctl, doc |-> doc, exc |-> decoded.val]
                ELSE [ctl |-> dict_setitem(ctl, transform_label(j.g1), decoded.val),
                      doc |-> doc, exc |-> ""]
        ELSE IF w.hit THEN
            [ctl |-> dict_setitem(ctl, transform_label(w.g1), PyStr(w.g2)),
             doc |-> doc, exc |-> ""]
        ELSE IF f.hit THEN
            [ctl |-> dict_setitem(ctl, transform_label(f.g1), PyInt(FLAG)),
             doc |-> doc, exc |-> ""]
        ELSE [ctl |-> ctl, doc |-> Append(doc, arg), exc |-> ""]

\* for arg in arg_list, from token i on.
RECURSIVE parse_loop(_, _, _, _)
parse_loop(ctl, doc, arg_list, i) ==
    IF i > Len(arg_list) THEN [ctl |-> ctl, doc |-> doc, exc |-> ""]
    ELSE LET r == parse_token(ctl, doc, arg_list[i])
         IN  IF r.exc # "" THEN r ELSE parse_loop(r.ctl, r.doc, arg_list, i + 1)

\* A return value with the two counts in the wrong order.
parse_return_swapped(ctl, doc) == PyTuple(<<Len(doc), Cardinality(DOMAIN ctl)>>)

\* return (len(self.ctl_dict), len(self.doc_list))
parse_return(ctl, doc) == PyTuple(<<Cardinality(DOMAIN ctl), Len(doc)>>)

\* The record of a call that begins in the current state.
Call(op, params) ==
    [op |-> op, params |-> params,
     dirty |-> (ctl_dict # EmptyDict \/ doc_list # <<>>)]

\* A parse that builds into new containers and installs them only on success.
parse_args_all_or_nothing(arg_list) ==
    LET r == parse_loop(EmptyDict, <<>>, arg_list, 1)
    IN  /\ call' = Call("parse_args", <<arg_list>>)
        /\ ctl_dict' = IF r.exc # "" THEN ctl_dict ELSE r.ctl
        /\ doc_list' = IF r.exc # "" THEN doc_list ELSE r.doc
        /\ ret' = IF r.exc # "" THEN Raise(r.exc) ELSE Return(parse_return(r.ctl, r.doc))
        /\ UNCHANGED config_dict

parse_args(arg_list) ==
    LET c == reset_containers(ctl_dict, doc_list)
        r == parse_loop(c.ctl, c.doc, arg_list, 1)
    IN  /\ call' = Call("parse_args", <<arg_list>>)
        /\ ctl_dict' = r.ctl
        /\ doc_list' = r.doc
        /\ ret' = IF r.exc # "" THEN Raise(r.exc) ELSE Return(parse_return(r.ctl, r.doc))
        /\ UNCHANGED config_dict

----------------------------------------------------------------------------
(* The conversions opt uses.                                               *)

\* A float in normal form.
RECURSIVE norm_float(_, _, _)
norm_float(neg, mant, exp) ==
    IF mant = 0 THEN PyFloat(neg, 0, 0)
    ELSE IF mant % 10 = 0 THEN norm_float(neg, mant \div 10, exp + 1)
    ELSE PyFloat(neg, mant, exp)

\* int(text), for a text made of an optional '-' and digits.
int_of_text(s) ==
    IF s[1] = "-" THEN 0 - DigitsToNat(Tail(s), 0) ELSE DigitsToNat(s, 0)

\* float(text), for a text over the characters 0-9 - . e + that starts with
\* an optional '-' and a digit (what the pattern of opt extracts): digits,
\* then an optional '.' and digits, then an optional exponent 'e', optional
\* '+', digits; anything else is a ValueError.
float_of_text(s) ==
    LET b == IF s # <<>> /\ s[1] = "-" THEN 2 ELSE 1
        e1 == DigitsEnd(s, b)
        hasDot == e1 + 1 <= Len(s) /\ s[e1 + 1] = "."
        e2 == IF hasDot THEN DigitsEnd(s, e1 + 2) ELSE e1
        frac == IF hasDot THEN SubSeq(s, e1 + 2, e2) ELSE <<>>
        q == e2 + 1
        hasExp == q <= Len(s)
        x0 == IF q + 1 <= Len(s) /\ s[q + 1] = "+" THEN q + 2 ELSE q + 1
        x1 == DigitsEnd(s, x0)
        expOk == s[q] = "e" /\ x1 >= x0 /\ x1 = Len(s)
        mant == DigitsToNat(SubSeq(s, b, e1) \o frac, 0)
        exp == IF hasExp THEN DigitsToNat(SubSeq(s, x0, x1), 0) ELSE 0
    IN  IF e1 < b THEN Raise("ValueError")
        ELSE IF hasExp /\ ~expOk THEN Raise("ValueError")
        ELSE Return(norm_float(b = 2, mant, exp - Len(frac)))

\* int(v) for a v that is not text.
py_int(v) ==
    IF v.t = "int" THEN Return(v)
    ELSE IF v.t = "bool" THEN Return(PyInt(IF v.v THEN 1 ELSE 0))
    ELSE IF v.t = "float" THEN
        LET m == IF v.v.exp >= 0 THEN v.v.mant * Pow10(v.v.exp)
                 ELSE v.v.mant \div Pow10(0 - v.v.exp)
        IN  Return(PyInt(IF v.v.neg THEN 0 - m ELSE m))
    ELSE Raise("TypeError")

\* float(v) for a v that is not text.
py_float(v) ==
    IF v.t = "float" THEN Return(v)
    ELSE IF v.t = "bool" THEN Return(PyFloat(FALSE, IF v.v THEN 1 ELSE 0, 0))
    ELSE IF v.t = "int" THEN
        Return(norm_float(v.v < 0, IF v.v < 0 THEN 0 - v.v ELSE v.v, 0))
    ELSE Raise("TypeError")

\* The text of a float whose magnitude is 0 or in [1e-4, 1e16).
float_text(f) ==
    LET ds == NatToDigits(f.mant)
        sign == IF f.neg THEN <<"-">> ELSE <<>>
    IN  IF f.exp >= 0 THEN sign \o ds \o Zeros(f.exp) \o <<".", "0">>
        ELSE IF Len(ds) > 0 - f.exp
        THEN sign \o SubSeq(ds, 1, Len(ds) + f.exp) \o <<".">>
                  \o SubSeq(ds, Len(ds) + f.exp + 1, Len(ds))
        ELSE sign \o <<"0", ".">> \o Zeros(0 - f.exp - Len(ds)) \o ds

\* str(v) for a v that is no dict and no list.
py_str(v) ==
    IF v.t = "str" THEN Return(v)
    ELSE IF v.t = "NoneType" THEN Return(PyStr(<<"N", "o", "n", "e">>))
    ELSE IF v.t = "bool" THEN
        Return(PyStr(IF v.v THEN <<"T", "r", "u", "e">> ELSE <<"F", "a", "l", "s", "e">>))
    ELSE IF v.t = "int" THEN
        Return(PyStr(IF v.v < 0 THEN <<"-">> \o NatToDigits(0 - v.v) ELSE NatToDigits(v.v)))
    ELSE Return(PyStr(float_text(v.v)))

\* A search for '(\d+)': the sign is not part of the match.
RECURSIVE search_int_unsigned(_, _)
search_int_unsigned(s, i) ==
    IF i > Len(s) THEN NoHit
    ELSE IF IsDigit(s[i]) THEN Hit(SubSeq(s, i, DigitsEnd(s, i)), <<>>)
    ELSE search_int_unsigned(s, i + 1)

\* re.search('(-?\d+)', v): the leftmost match, from position i on.
RECURSIVE search_int(_, _)
search_int(s, i) ==
    IF i > Len(s) THEN NoHit
    ELSE IF s[i] = "-" /\ i + 1 <= Len(s) /\ IsDigit(s[i + 1])
    THEN Hit(SubSeq(s, i, DigitsEnd(s, i + 1)), <<>>)
    ELSE IF IsDigit(s[i]) THEN Hit(SubSeq(s, i, DigitsEnd(s, i)), <<>>)
    ELSE search_int(s, i + 1)

\* A greedy '[\d\.e\+]*' starting at position i of s: the index of its last
\* character.
RECURSIVE FloatCharsEnd(_, _)
FloatCharsEnd(s, i) ==
    IF i <= Len(s) /\ (IsDigit(s[i]) \/ s[i] \in {".", "e", "+"})
    THEN FloatCharsEnd(s, i + 1) ELSE i - 1

\* re.search('(-?\d[\d\.e\+]*)', v): the leftmost match, from position i on.
RECURSIVE search_float(_, _)
search_float(s, i) ==
    IF i > Len(s) THEN NoHit
    ELSE IF s[i] = "-" /\ i + 1 <= Len(s) /\ IsDigit(s[i + 1])
    THEN Hit(SubSeq(s, i, FloatCharsEnd(s, i + 2)), <<>>)
    ELSE IF IsDigit(s[i]) THEN Hit(SubSeq(s, i, FloatCharsEnd(s, i + 1)), <<>>)
    ELSE search_float(s, i + 1)

----------------------------------------------------------------------------
(* FreeArgs.opt                                                            *)

\* The instance has no attribute config_dict.
NoConfig == [attached |-> FALSE, map |-> EmptyDict]
Config(d) == [attached |-> TRUE, map |-> d]

NotFound == [found |-> FALSE, v |-> None]
Found(v) == [found |-> TRUE, v |-> v]

\* A lookup that consults the option table before the local overrides.
lookup_ctl_first(label, local_dict, ctl, cfg) ==
    IF label \in DOMAIN ctl THEN Found(ctl[label])
    ELSE IF label \in DOMAIN local_dict THEN Found(local_dict[label])
    ELSE IF cfg.attached /\ label \in DOMAIN cfg.map THEN Found(cfg.map[label])
    ELSE NotFound

\* The if/elif chain over the three sources.
lookup(label, local_dict, ctl, cfg) ==
    IF label \in DOMAIN local_dict THEN Found(local_dict[label])
    ELSE IF label \in DOMAIN ctl THEN Found(ctl[label])
    ELSE IF cfg.attached /\ label \in DOMAIN cfg.map THEN Found(cfg.map[label])
    ELSE NotFound

\* An integer coercion that ignores the sign of the text.
coerce_int_unsigned(v) ==
    IF v.t # "str" THEN py_int(v)
    ELSE LET hits == search_int_unsigned(v.v, 1)
         IN  IF ~hits.hit THEN Return(PyInt(0))
             ELSE Return(PyInt(int_of_text(hits.g1)))

\* The branch for an int default.
coerce_int(v) ==
    IF v.t # "str" THEN py_int(v)
    ELSE LET hits == search_int(v.v, 1)
         IN  IF ~hits.hit THEN Return(PyInt(0))
             ELSE Return(PyInt(int_of_text(hits.g1)))

\* The branch for a float default.  The handler of a failed conversion is the
\* expression statement Pass, a name the module never binds: evaluating it
\* raises NameError.
coerce_float(v) ==
    IF v.t # "str" THEN py_float(v)
    ELSE LET hits == search_float(v.v, 1)
         IN  IF ~hits.hit THEN Return(PyFloat(FALSE, 0, 0))
             ELSE LET f == float_of_text(hits.g1)
                  IN  IF f.kind = "return" THEN f ELSE Raise("NameError")

\* The branch for a str default, with the same handler.
coerce_str(v) ==
    LET r == py_str(v)
    IN  IF r.kind = "return" THEN r ELSE Raise("NameError")

\* The outcome of opt(label, default_value, local_dict) on an instance
\* holding ctl and cfg.
opt_outcome(label, default_value, local_dict, ctl, cfg) ==
    LET src == lookup(label, local_dict, ctl, cfg)
        v == src.v
    IN  IF ~src.found THEN Return(default_value)
        ELSE IF default_value.t = "NoneType" THEN Return(v)
        ELSE IF v.t = "dict" THEN Return(v)
        ELSE IF v.t = "list" THEN Return(v)
        ELSE IF default_value.t = "int" THEN coerce_int(v)
        ELSE IF default_value.t = "float" THEN coerce_float(v)
        ELSE IF default_value.t = "str" THEN coerce_str(v)
        ELSE Return(v)

opt(label, default_value, local_dict) ==
    /\ call' = Call("opt", <<label, default_value, local_dict>>)
    /\ ret' = opt_outcome(label, default_value, local_dict, ctl_dict, config_dict)
    /\ UNCHANGED <<ctl_dict, doc_list, config_dict>>

----------------------------------------------------------------------------
(* Spec: one instance, any sequence of parse_args and opt calls.           *)

tok_cluster == <<"-", "a", "b", "a">>
tok_flag == <<"-", "-", "a">>
tok_value == <<"-", "-", "a", "=", "1">>
tok_json == <<"-", "-", "a", "=", "j", "s", "o", "n", ":", "[", "1", "]">>
tok_bad_json == <<"-", "-", "b", "=", "j", "s", "o", "n", ":", "[">>
tok_doc == <<"f">>

Tokens ==
    {tok_cluster, tok_flag, tok_value, tok_json, tok_bad_json, tok_doc}

ArgLists == UNION {[1..n -> Tokens] : n \in 0..MaxArgs}

Labels == {<<"a">>, <<"b">>, <<"z">>}
SomeDefaults == {None, PyInt(7)}
SomeLocals == {EmptyDict, [k \in {<<"a">>} |-> PyInt(5)]}
SomeConfig == [k \in {<<"b">>} |-> PyStr(<<"4", "2">>)]

\* FreeArgs.__init__
Init ==
    /\ ctl_dict = init_ctl_dict
    /\ doc_list = init_doc_list
    /\ config_dict = NoConfig
    /\ call = Call("__init__", <<>>)
    /\ ret = Return(None)

DoParse == \E arg_list \in ArgLists : parse_args(arg_list)

DoOpt ==
    \E label \in Labels, default_value \in SomeDefaults, local_dict \in SomeLocals :
        opt(label, default_value, local_dict)

\* setattr(farg, 'config_dict', your_apps_config_dict)
SetConfig ==
    /\ ~config_dict.attached
    /\ config_dict' = Config(SomeConfig)
    /\ UNCHANGED <<ctl_dict, doc_list, call, ret>>

Next == DoParse \/ DoOpt \/ SetConfig

Spec == Init /\ [][Next]_vars

----------------------------------------------------------------------------
(* SpecTok: a new instance parses one argument list, drawn from every      *)
(* short token over a small alphabet and from the tokens above.            *)

TokChars == {"-", "=", "a", "\n"}

tok_json_dashes == <<"-", "-", "-", "a", "=", "j", "s", "o", "n", ":", "{", "}">>
tok_json_int == <<"-", "-", "a", "-", "b", "=", "j", "s", "o", "n", ":", "-", "1">>
tok_json_empty == <<"-", "-", "a", "=", "j", "s", "o", "n", ":">>
tok_hyphen == <<"-", "-", "a", "-", "b">>
tok_dash == <<"-">>

MoreTokens ==
    Tokens \cup {tok_json_dashes, tok_json_int, tok_json_empty, tok_hyphen, tok_dash}

TokStrings == Texts(TokChars, MaxTokLen) \cup MoreTokens

\* One token, or two of which one is among MoreTokens.
TokLists ==
    {<<t>> : t \in TokStrings}
        \cup {<<t, u>> : t \in TokStrings, u \in MoreTokens}
        \cup {<<u, t>> : t \in TokStrings, u \in MoreTokens}

InitTok ==
    /\ ctl_dict = init_ctl_dict
    /\ doc_list = init_doc_list
    /\ config_dict = NoConfig
    /\ call \in {Call("parse_args", <<a>>) : a \in TokLists}
    /\ ret = Pending

RunParse ==
    /\ call.op = "parse_args"
    /\ ret = Pending
    /\ parse_args(call.params[1])

SpecTok == InitTok /\ [][RunParse]_vars

----------------------------------------------------------------------------
(* SpecOpt: one opt call on an instance whose sources are drawn from       *)
(* bounded sets.                                                           *)

TextChars == {"-", "0", "1", ".", "e", "+", "a"}
FoundTexts == {PyStr(s) : s \in Texts(TextChars, MaxTextLen)}

NonTextValues ==
    {None, PyInt(FLAG), PyInt(0), PyInt(5), PyFloat(FALSE, 15, -1),
     PyFloat(TRUE, 2, 0), PyBool(TRUE), PyList(<<>>), PyList(<<PyInt(1)>>),
     PyDict(EmptyDict)}

Defaults ==
    {None, PyInt(7), PyInt(0), PyFloat(FALSE, 5, -1), PyStr(<<"s">>), PyBool(TRUE)}

K == <<"k">>
Z == <<"z">>
Only(v) == [k \in {K} |-> v]

\* Values that parse_args stores, and values that any mapping may hold.
StoredValues == {PyInt(FLAG), PyInt(0), PyStr(<<>>), PyStr(<<"4", "2">>), PyList(<<>>)}
MappedValues == {None, PyInt(FLAG), PyInt(0), PyStr(<<>>), PyStr(<<"4", "2">>)}

\* <<local_dict, ctl_dict, config_dict>>: every combination of the three
\* sources holding the label or not, and every value found alone.
Sources ==
    (({EmptyDict} \cup {Only(v) : v \in MappedValues})
        \X ({EmptyDict} \cup {Only(v) : v \in StoredValues})
        \X ({NoConfig, Config(EmptyDict)} \cup {Config(Only(v)) : v \in MappedValues}))
    \cup {<<EmptyDict, Only(v), NoConfig>> : v \in FoundTexts}
    \cup {<<Only(v), EmptyDict, NoConfig>> : v \in NonTextValues}

InitOpt ==
    \E src \in Sources, label \in {K, Z}, default_value \in Defaults :
        /\ ctl_dict = src[2]
        /\ doc_list = <<>>
        /\ config_dict = src[3]
        /\ call = Call("opt", <<label, default_value, src[1]>>)
        /\ ret = Pending

RunOpt ==
    /\ call.op = "opt"
    /\ ret = Pending
    /\ opt(call.params[1], call.params[2], call.params[3])

SpecOpt == InitOpt /\ [][RunOpt]_vars

----------------------------------------------------------------------------
(* Properties.                                                             *)

Parsed == call.op = "parse_args" /\ ret.kind = "return"
ParseFailed == call.op = "parse_args" /\ ret.kind = "raise"
Looked == call.op = "opt" /\ ret.kind # "pending"

\* What a new instance holds after parsing arg_list.
FreshParse(arg_list) == parse_loop(init_ctl_dict, init_doc_list, arg_list, 1)

\* The entries one token writes on its own.
TokenWrites(arg) == parse_token(EmptyDict, <<>>, arg).ctl

\* The positions of arg_list whose token writes label k.
Writers(arg_list, k) ==
    {i \in 1..Len(arg_list) : k \in DOMAIN TokenWrites(arg_list[i])}

Last(S) == CHOOSE i \in S : \A j \in S : j <= i

StartsWithTwoDashes(t) == Len(t) >= 2 /\ t[1] = "-" /\ t[2] = "-"

\* A `json:` option whose payload does not decode.
BadJson(t) ==
    /\ ~match_short(t).hit
    /\ match_json(t).hit
    /\ json_loads(match_json(t).g2).kind = "raise"

\* C1: after a parse call returns, the option table and the document
\* sequence are those of a new instance that parsed the same token list,
\* whatever the instance held before the call.
C1_ParseReplaces ==
    Parsed =>
        /\ ctl_dict = FreshParse(call.params[1]).ctl
        /\ doc_list = FreshParse(call.params[1]).doc

\* A parse of a list without options or documents, on an instance that
\* held something, leaves both containers empty.
C1_Witness ==
    /\ Parsed
    /\ call.dirty
    /\ call.params[1] = <<>>
    /\ ctl_dict = EmptyDict
    /\ doc_list = <<>>

\* C7: after a parse call returns, every label of the option table holds
\* the value written by the last token of the list that writes that label.
C7_LastWriteWins ==
    Parsed =>
        \A k \in DOMAIN ctl_dict :
            LET w == Writers(call.params[1], k)
            IN  /\ w # {}
                /\ ctl_dict[k] = TokenWrites(call.params[1][Last(w)])[k]

\* A JSON value overwritten by a later plain value of the same label.
C7_Witness ==
    /\ Parsed
    /\ call.params[1] = <<tok_json, tok_value>>
    /\ ctl_dict[<<"a">>] = PyStr(<<"1">>)

\* C9: a parse call that returns, returns the number of distinct labels of
\* the option table (the labels some token of the list writes) and the
\* number of documents; an empty list returns (0, 0).
C9_ReturnsCounts ==
    Parsed =>
        LET arg_list == call.params[1]
            labels == UNION {DOMAIN TokenWrites(arg_list[i]) : i \in 1..Len(arg_list)}
        IN  /\ ret.val = PyTuple(<<Cardinality(DOMAIN ctl_dict), Len(doc_list)>>)
            /\ ret.val.v[1] = Cardinality(labels)
            /\ (arg_list = <<>> => ret.val = PyTuple(<<0, 0>>))

\* A label written three times, twice within one cluster, is counted once.
C9_Witness ==
    /\ Parsed
    /\ call.params[1] = <<tok_cluster, tok_flag>>
    /\ ret.val = PyTuple(<<2, 0>>)

\* C10: a parse call that fails leaves the containers built from the tokens
\* before the first `json:` token whose payload does not decode, and nothing
\* of what the instance held before the call.
C10_NoRollback ==
    ParseFailed =>
        \E i \in 1..Len(call.params[1]) :
            /\ BadJson(call.params[1][i])
            /\ \A j \in 1..(i - 1) : ~BadJson(call.params[1][j])
            /\ ctl_dict = FreshParse(SubSeq(call.params[1], 1, i - 1)).ctl
            /\ doc_list = FreshParse(SubSeq(call.params[1], 1, i - 1)).doc

\* A failed parse on an instance that held something leaves the one
\* document that precedes the failing token.
C10_Witness ==
    /\ ParseFailed
    /\ call.dirty
    /\ call.params[1] = <<tok_doc, tok_bad_json>>
    /\ ctl_dict = EmptyDict
    /\ doc_list = <<tok_doc>>

\* C3: no key of the option table contains a hyphen.
C3_NoHyphenInKeys ==
    (call.op = "parse_args" /\ ret.kind # "pending") =>
        \A k \in DOMAIN ctl_dict : \A i \in 1..Len(k) : k[i] # "-"

\* The four option shapes as the grammar words them: a label is at least
\* one character without '='.
ShapeShort(t) == Len(t) >= 2 /\ t[1] = "-" /\ t[2] # "-"
ShapeValue(t) == StartsWithTwoDashes(t) /\ Find(t, "=", 1) >= 4
ShapeJson(t) ==
    /\ ShapeValue(t)
    /\ HasAt(t, <<"=", "j", "s", "o", "n", ":">>, Find(t, "=", 1))
    /\ Len(t) >= Find(t, "=", 1) + 6
ShapeFlag(t) == StartsWithTwoDashes(t) /\ Find(t, "=", 1) = 0
NoShape(t) == ~(ShapeShort(t) \/ ShapeJson(t) \/ ShapeValue(t) \/ ShapeFlag(t))

\* C8 as stated: the documents are the tokens of none of the four shapes,
\* and these tokens write no entry.
C8_DocsAreShapeless ==
    Parsed =>
        LET arg_list == call.params[1]
        IN  /\ doc_list = SelectSeq(arg_list, NoShape)
            /\ DOMAIN ctl_dict =
                UNION {DOMAIN TokenWrites(arg_list[i]) :
                          i \in {j \in 1..Len(arg_list) : ~NoShape(arg_list[j])}}

\* A document: a token that neither begins with two dashes nor is a dash
\* followed by another character.
IsDoc(t) == ~StartsWithTwoDashes(t) /\ ~ShapeShort(t)

\* C8 amended: the documents are, in order and verbatim, the tokens that
\* neither begin with `--` nor are a `-` followed by a non-dash character;
\* every other token writes an entry and is no document, and the documents
\* write none.
C8_DocsAreNonOptions ==
    Parsed =>
        LET arg_list == call.params[1]
            opts == {j \in 1..Len(arg_list) : ~IsDoc(arg_list[j])}
        IN  /\ doc_list = SelectSeq(arg_list, IsDoc)
            /\ DOMAIN ctl_dict = UNION {DOMAIN TokenWrites(arg_list[i]) : i \in opts}
            /\ \A i \in opts : TokenWrites(arg_list[i]) # EmptyDict

\* `--=` before a document: an option under the label `=`, one document.
C8_Witness ==
    /\ Parsed
    /\ call.params[1] = << <<"-", "-", "=">>, tok_doc >>
    /\ doc_list = <<tok_doc>>
    /\ DOMAIN ctl_dict = {<<"=">>}

----------------------------------------------------------------------------
(* Properties of opt.  In a state where Looked holds, the sources are      *)
(* call.params[3] (the local overrides), ctl_dict and config_dict.         *)

InLocal == call.params[1] \in DOMAIN call.params[3]
InCtl == call.params[1] \in DOMAIN ctl_dict
InConfig == config_dict.attached /\ call.params[1] \in DOMAIN config_dict.map
IsFound == InLocal \/ InCtl \/ InConfig

\* The value of the first source that holds the label.
Raw ==
    IF InLocal THEN call.params[3][call.params[1]]
    ELSE IF InCtl THEN ctl_dict[call.params[1]]
    ELSE config_dict.map[call.params[1]]

\* C2: opt takes the value of the first source that holds the label, in the
\* order local overrides, option table, configuration mapping, whatever the
\* value; it returns the default when no source holds the label, and the
\* found value itself when the default is none.
C2_ResolutionOrder ==
    Looked =>
        LET label == call.params[1]
            default_value == call.params[2]
        IN  /\ ~IsFound => ret = Return(default_value)
            /\ (IsFound /\ default_value = None) => ret = Return(Raw)
            /\ IsFound =>
                   ret = opt_outcome(label, default_value,
                                     [k \in {label} |-> Raw], EmptyDict, NoConfig)

\* The three sources hold the label; the local value, none, is returned.
C2_Witness ==
    /\ Looked
    /\ call.params[2] = None
    /\ call.params[3] = Only(None)
    /\ ctl_dict = Only(PyInt(FLAG))
    /\ config_dict = Config(Only(PyStr(<<"4", "2">>)))
    /\ ret = Return(None)

FirstDigit(s) ==
    IF \E i \in 1..Len(s) : IsDigit(s[i])
    THEN CHOOSE i \in 1..Len(s) : IsDigit(s[i]) /\ \A j \in 1..(i - 1) : ~IsDigit(s[j])
    ELSE 0

\* The integer of the first run of digits of s, negated when a '-' stands
\* right before the run; 0 when s has no digit.
FirstSignedInt(s) ==
    LET p == FirstDigit(s)
        e == CHOOSE j \in p..Len(s) :
                 /\ \A i \in p..j : IsDigit(s[i])
                 /\ (j = Len(s) \/ ~IsDigit(s[j + 1]))
        n == DigitsToNat(SubSeq(s, p, e), 0)
    IN  IF p = 0 THEN 0
        ELSE IF p > 1 /\ s[p - 1] = "-" THEN 0 - n
        ELSE n

\* C6: with an int default and a found value that is no mapping and no
\* sequence, opt returns the first signed integer of a text (0 when it has
\* no digit), an int unchanged, a float truncated, a bool as 0 or 1.
C6_IntCoercion ==
    (Looked /\ IsFound /\ call.params[2].t = "int" /\ Raw.t \notin {"dict", "list"}) =>
        /\ Raw.t = "str" => ret = Return(PyInt(FirstSignedInt(Raw.v)))
        /\ Raw.t = "int" => ret = Return(Raw)
        /\ Raw.t = "bool" => ret = Return(PyInt(IF Raw.v THEN 1 ELSE 0))
        /\ Raw = PyFloat(FALSE, 15, -1) => ret = Return(PyInt(1))
        /\ Raw = PyFloat(TRUE, 2, 0) => ret = Return(PyInt(-2))
        /\ Raw = None => ret.kind = "raise"

\* The text a-1 found in the option table, asked with the default 7.
C6_Witness ==
    /\ Looked
    /\ call.params[2] = PyInt(7)
    /\ ctl_dict = Only(PyStr(<<"a", "-", "1">>))
    /\ ret = Return(PyInt(-1))

\* C4: the only call that raises is a parse call.
C4_OnlyParseRaises == ret.kind = "raise" => call.op = "parse_args"

\* C5: with a float default and a found text, opt returns the float of the
\* first match of the float pattern, and 0.0 when there is no match or the
\* match is no float.
C5_FloatDegrades ==
    (Looked /\ IsFound /\ call.params[2].t = "float" /\ Raw.t = "str") =>
        LET hits == search_float(Raw.v, 1)
        IN  ret = IF hits.hit /\ float_of_text(hits.g1).kind = "return"
                  THEN float_of_text(hits.g1)
                  ELSE Return(PyFloat(FALSE, 0, 0))

====
